---- MODULE Spec2Model ----
(***************************************************************************)
(* Column factory of clickhouse-rs (src/types/column/factory.rs): the      *)
(* type-descriptor parsers (parse_fixed_string, parse_nullable_type,       *)
(* parse_array_type, parse_decimal, parse_enum8, parse_enum16) and the two *)
(* entry points load_data and from_type.                                   *)
(*                                                                         *)
(* A descriptor (&str) is a sequence of bytes.  An ASCII character is one  *)
(* one-character string; the two-byte character U+00E9 is the pair         *)
(* "C3", "A9", so that Rust's byte-indexed slicing and its char-boundary   *)
(* check can be modelled as the code performs them.                        *)
(***************************************************************************)
EXTENDS Integers, Sequences, FiniteSets, TLC

VARIABLES
    descriptor, \* the type descriptor handed to a parser or to load_data
    sql_type,   \* the SqlType handed to from_type
    shape,      \* how the descriptor was written (the input's parameters)
    op,         \* the function that was called ("none" before the call)
    ret         \* what the call returned

vars == <<descriptor, sql_type, shape, op, ret>>

(***************************************************************************)
(* Bounds of the checked input sets.                                       *)
(***************************************************************************)
MaxTail == 3      \* tokens after the keywords of a wrapper descriptor
MaxNest == 2      \* keywords a wrapper descriptor starts with
MaxReads == 2     \* bulk reads the byte source may serve
MaxNum == 20      \* largest small number among the Decimal parameters
MaxPad == 1       \* blanks written where whitespace may stand
MaxPairs == 3     \* pairs of an enum descriptor
MaxDepth == 2     \* Nullable / Array wrappers around a SqlType

(***************************************************************************)
(* Option / Result / panic values.                                         *)
(***************************************************************************)
None == [tag |-> "None"]
Some(v) == [tag |-> "Some", val |-> v]
Panic == [tag |-> "Panic"]
NotCalled == [tag |-> "NotCalled"]

(***************************************************************************)
(* Bytes and strings.                                                      *)
(***************************************************************************)
DigitChars == <<"0", "1", "2", "3", "4", "5", "6", "7", "8", "9">>
UpperChars == <<"A", "B", "C", "D", "E", "F", "G", "H", "I", "J", "K", "L", "M",
                "N", "O", "P", "Q", "R", "S", "T", "U", "V", "W", "X", "Y", "Z">>
LowerChars == <<"a", "b", "c", "d", "e", "f", "g", "h", "i", "j", "k", "l", "m",
                "n", "o", "p", "q", "r", "s", "t", "u", "v", "w", "x", "y", "z">>

IsDigit(c) == \E i \in 1..10 : DigitChars[i] = c
DigitVal(c) == (CHOOSE i \in 1..10 : DigitChars[i] = c) - 1

\* char::is_whitespace, on the whitespace the checked descriptors hold
IsWhitespace(c) == c \in {" ", "\t", "\n"}

\* u8::to_ascii_lowercase
to_ascii_lowercase(c) ==
    IF \E i \in 1..26 : UpperChars[i] = c
    THEN LowerChars[CHOOSE i \in 1..26 : UpperChars[i] = c]
    ELSE c

\* str::eq_ignore_ascii_case
eq_ignore_ascii_case(a, b) ==
    /\ Len(a) = Len(b)
    /\ \A i \in 1..Len(a) : to_ascii_lowercase(a[i]) = to_ascii_lowercase(b[i])

\* str::starts_with
starts_with(s, prefix) ==
    /\ Len(s) >= Len(prefix)
    /\ SubSeq(s, 1, Len(prefix)) = prefix

\* a UTF-8 continuation byte (0x80..0xBF); "A9" is the only one in the model
IsContinuation(b) == b = "A9"

\* str::is_char_boundary, index counted in bytes from 0
is_char_boundary(s, i) ==
    \/ i = 0
    \/ i = Len(s)
    \/ (i < Len(s) /\ ~IsContinuation(s[i + 1]))

\* &s[from..to]: the bytes from..to-1, or a panic when the range is reversed,
\* runs past the end or cuts a character
Slice(s, from, to) ==
    IF from > to \/ to > Len(s) \/ to < 0
       \/ ~is_char_boundary(s, from) \/ ~is_char_boundary(s, to)
    THEN Panic
    ELSE Some(SubSeq(s, from + 1, to))

RECURSIVE Concat(_)
Concat(ss) == IF ss = <<>> THEN <<>> ELSE Head(ss) \o Concat(Tail(ss))

\* all sequences over S of length at most n
SeqsUpTo(S, n) == UNION {[1..k -> S] : k \in 0..n}

(***************************************************************************)
(* str::parse for the unsigned types (u8, usize): an optional '+', then    *)
(* one or more ASCII digits, no overflow.  A '-' is an invalid digit.      *)
(***************************************************************************)
U8Max == 255
\* usize::MAX is 2^64 - 1, beyond TLC's integers; the descriptors checked
\* hold at most 9 digits, so the largest integer TLC has stands in for it.
UsizeMax == 2147483647

RECURSIVE DigitsValue(_, _, _)
\* the value of the digit string s continued from acc, -1 on overflow past max
DigitsValue(s, acc, max) ==
    IF s = <<>> THEN acc
    ELSE IF acc > (max - DigitVal(Head(s))) \div 10 THEN -1
    ELSE DigitsValue(Tail(s), acc * 10 + DigitVal(Head(s)), max)

parse_unsigned(s, max) ==
    LET digits == IF s # <<>> /\ Head(s) = "+" THEN Tail(s) ELSE s
    IN  IF digits = <<>> \/ \E i \in 1..Len(digits) : ~IsDigit(digits[i])
        THEN None
        ELSE LET v == DigitsValue(digits, 0, max)
             IN  IF v < 0 THEN None ELSE Some(v)

(***************************************************************************)
(* Keywords.                                                               *)
(***************************************************************************)
KwFixedString == <<"F", "i", "x", "e", "d", "S", "t", "r", "i", "n", "g">>
KwNullable == <<"N", "u", "l", "l", "a", "b", "l", "e">>
KwArray == <<"A", "r", "r", "a", "y">>

(***************************************************************************)
(* parse_fixed_string, parse_nullable_type, parse_array_type               *)
(***************************************************************************)
parse_fixed_string(source) ==
    IF ~starts_with(source, KwFixedString) THEN None
    ELSE LET inner_size == Slice(source, 12, Len(source) - 1)
         IN  IF inner_size.tag = "Panic" THEN Panic
             ELSE parse_unsigned(inner_size.val, UsizeMax)

\* parse_nullable_type without its check of the inner text (lines 190-192)
parse_nullable_type_any(source) ==
    IF ~starts_with(source, KwNullable) THEN None
    ELSE Slice(source, 9, Len(source) - 1)

parse_nullable_type(source) ==
    IF ~starts_with(source, KwNullable) THEN None
    ELSE LET inner_type == Slice(source, 9, Len(source) - 1)
         IN  IF inner_type.tag = "Panic" THEN Panic
             ELSE IF starts_with(inner_type.val, KwNullable) THEN None
             ELSE Some(inner_type.val)

parse_array_type(source) ==
    IF ~starts_with(source, KwArray) THEN None
    ELSE Slice(source, 6, Len(source) - 1)

(***************************************************************************)
(* NoBits::from_precision (types/decimal.rs; its code is outside           *)
(* factory.rs): a precision up to 9 is backed by 32 bits, 10-18 by 64      *)
(* bits, and 19 and more have no backing width.  The tests of              *)
(* parse_decimal pin 9 -> N32, 10 -> N64 and 20 -> none.  Precision 0,     *)
(* which no text names, takes the 32-bit arm: only 19+ is called           *)
(* unsupported.                                                            *)
(***************************************************************************)
MaxPrecision32 == 9
MaxPrecision64 == 18

from_precision(precision) ==
    IF precision <= MaxPrecision32 THEN Some("N32")
    ELSE IF precision <= MaxPrecision64 THEN Some("N64")
    ELSE None

(***************************************************************************)
(* parse_decimal                                                           *)
(***************************************************************************)
KwDecimal == <<"D", "e", "c", "i", "m", "a", "l">>
KwDecimal32 == KwDecimal \o <<"3", "2">>
KwDecimal64 == KwDecimal \o <<"6", "4">>
MinDecimalLen == 12
Decimal32Precision == 9
Decimal64Precision == 18

\* str::trim
RECURSIVE trim_start(_)
trim_start(s) ==
    IF s # <<>> /\ IsWhitespace(Head(s)) THEN trim_start(Tail(s)) ELSE s

RECURSIVE trim_end(_)
trim_end(s) ==
    IF s # <<>> /\ IsWhitespace(s[Len(s)])
    THEN trim_end(SubSeq(s, 1, Len(s) - 1))
    ELSE s

trim(s) == trim_end(trim_start(s))

\* str::split(','): the pieces between the commas, one piece for a string
\* without a comma (the empty string included)
RECURSIVE split_comma(_, _)
split_comma(s, piece) ==
    IF s = <<>> THEN <<piece>>
    ELSE IF Head(s) = "," THEN <<piece>> \o split_comma(Tail(s), <<>>)
    ELSE split_comma(Tail(s), Append(piece, Head(s)))

\* std::str::from_utf8(bytes).unwrap(): a panic unless every lead byte is
\* followed by its continuation byte and every continuation byte follows one
from_utf8_unwrap(bytes) ==
    IF \A i \in 1..Len(bytes) :
          /\ bytes[i] = "C3" => (i < Len(bytes) /\ bytes[i + 1] = "A9")
          /\ bytes[i] = "A9" => (i > 1 /\ bytes[i - 1] = "C3")
    THEN Some(bytes)
    ELSE Panic

\* &bytes[from..to] of a byte slice: a panic when the range is reversed or
\* runs past the end
ByteSlice(bytes, from, to) ==
    IF from > to \/ to > Len(bytes) THEN Panic
    ELSE Some(SubSeq(bytes, from + 1, to))

\* the loop over source.as_bytes() (lines 222-239), from byte idx on (0-based);
\* st holds nobits and params_indexes; failed is its early `return None`
RECURSIVE ScanParens(_, _, _)
ScanParens(source, idx, st) ==
    IF idx >= Len(source) THEN st
    ELSE LET byte == source[idx + 1]
             prefix == SubSeq(source, 1, idx)
             opened ==
                 IF byte # "(" THEN st
                 ELSE IF prefix = KwDecimal
                      THEN [st EXCEPT !.start = Some(idx)]
                 ELSE IF prefix = KwDecimal32
                      THEN [st EXCEPT !.nobits = Some("N32"), !.start = Some(idx)]
                 ELSE IF prefix = KwDecimal64
                      THEN [st EXCEPT !.nobits = Some("N64"), !.start = Some(idx)]
                 ELSE [st EXCEPT !.failed = TRUE]
             closed ==
                 IF byte = ")" THEN [opened EXCEPT !.end = Some(idx)] ELSE opened
         IN  IF opened.failed THEN opened
             ELSE ScanParens(source, idx + 1, closed)

\* the `for (idx, cell) in ... .split(',').map(|s| s.trim()).enumerate()`
\* (lines 254-266): precision from cell 0, scale from cell 1, `return None`
\* at a third cell
DecimalCells(text) ==
    LET cells == split_comma(text, <<>>)
    IN  [tooMany |-> Len(cells) > 2,
         precision |-> parse_unsigned(trim(cells[1]), U8Max),
         scale |-> IF Len(cells) >= 2
                   THEN parse_unsigned(trim(cells[2]), U8Max)
                   ELSE None]

\* the final match without its `scale > precision` arm (lines 271-273)
DecimalResult_unchecked(precision, scale, nobits) ==
    IF precision.tag = "Some" /\ scale.tag = "Some" /\ nobits.tag = "None"
    THEN IF from_precision(precision.val).tag = "Some"
         THEN Some([precision |-> precision.val, scale |-> scale.val,
                    nobits |-> from_precision(precision.val).val])
         ELSE None
    ELSE IF precision.tag = "None" /\ scale.tag = "Some" /\ nobits.tag = "Some"
    THEN Some([precision |-> IF nobits.val = "N32" THEN Decimal32Precision
                             ELSE Decimal64Precision,
               scale |-> scale.val,
               nobits |-> nobits.val])
    ELSE None

\* the final `match (precision, scale, nobits)` (lines 270-290)
DecimalResult(precision, scale, nobits) ==
    IF precision.tag = "Some" /\ scale.tag = "Some" /\ nobits.tag = "None"
    THEN IF scale.val > precision.val THEN None
         ELSE LET bits == from_precision(precision.val)
              IN  IF bits.tag = "Some"
                  THEN Some([precision |-> precision.val, scale |-> scale.val,
                             nobits |-> bits.val])
                  ELSE None
    ELSE IF precision.tag = "None" /\ scale.tag = "Some" /\ nobits.tag = "Some"
    THEN Some([precision |-> IF nobits.val = "N32" THEN Decimal32Precision
                             ELSE Decimal64Precision,
               scale |-> scale.val,
               nobits |-> nobits.val])
    ELSE None

parse_decimal(source) ==
    IF Len(source) < MinDecimalLen THEN None
    ELSE IF ~starts_with(source, KwDecimal) THEN None
    ELSE LET st == ScanParens(source, 0,
                       [nobits |-> None, start |-> None, end |-> None,
                        failed |-> FALSE])
         IN  IF st.failed THEN None
             ELSE IF st.start.tag = "None" \/ st.end.tag = "None" THEN None
             ELSE LET bytes == ByteSlice(source, st.start.val + 1, st.end.val)
                      text == IF bytes.tag = "Panic" THEN Panic
                              ELSE from_utf8_unwrap(bytes.val)
                  IN  IF text.tag = "Panic" THEN Panic
                      ELSE IF st.nobits.tag = "Some"
                      THEN DecimalResult(None, parse_unsigned(text.val, U8Max),
                                         st.nobits)
                      ELSE LET c == DecimalCells(text.val)
                           IN  IF c.tooMany THEN None
                               ELSE DecimalResult(c.precision, c.scale, None)

(***************************************************************************)
(* parse_enum: the combine parser of lines 320-349, as a descent over the  *)
(* input.  A parser takes the input and the position (from 1) of the next  *)
(* unread byte and gives [ok, val, pos]; a failure fails the whole parse,  *)
(* except where combine backtracks: `optional`, `or`, and the end of a     *)
(* `many` / `sep_by1` repetition on a failure that consumed nothing.       *)
(***************************************************************************)
KwEnum8 == <<"E", "n", "u", "m", "8">>
KwEnum16 == <<"E", "n", "u", "m", "1", "6">>
I16Min == -32768
I16Max == 32767
I8Min == -128
I8Max == 127

Fail == [ok |-> FALSE]
Done(v, pos) == [ok |-> TRUE, val |-> v, pos |-> pos]

\* sequencing: parser result r, then the rest of the parse on r
AndThen(r, rest(_)) == IF r.ok THEN rest(r) ELSE Fail

\* token(c)
token(c, input, pos) ==
    IF pos <= Len(input) /\ input[pos] = c THEN Done(c, pos + 1) ELSE Fail

\* spaces(): skips any run of whitespace, never fails; the position after it
RECURSIVE spaces(_, _)
spaces(input, pos) ==
    IF pos <= Len(input) /\ IsWhitespace(input[pos])
    THEN spaces(input, pos + 1)
    ELSE pos

\* string(size)
string(lit, input, pos) ==
    IF pos + Len(lit) - 1 <= Len(input) /\ SubSeq(input, pos, pos + Len(lit) - 1) = lit
    THEN Done(lit, pos + Len(lit))
    ELSE Fail

\* many1(digit())
RECURSIVE many_digits(_, _, _)
many_digits(input, pos, acc) ==
    IF pos <= Len(input) /\ IsDigit(input[pos])
    THEN many_digits(input, pos + 1, Append(acc, input[pos]))
    ELSE IF acc = <<>> THEN Fail ELSE Done(acc, pos)

\* digits.parse::<i16>() of the digits with the '-' put back in front
SignedValue(negative, magnitude) ==
    IF magnitude < 0 THEN None
    ELSE Some(IF negative THEN -magnitude ELSE magnitude)

parse_i16(negative, digits) ==
    SignedValue(negative,
                DigitsValue(digits, 0, IF negative THEN -I16Min ELSE I16Max))

\* and_then: the parse error of the closure fails the parser
and_then(parsed, pos) ==
    IF parsed.tag = "Some" THEN Done(parsed.val, pos) ELSE Fail

\* integer: optional(token('-')).and(many1(digit())).and_then(parse::<i16>)
integer_signed(negative, input, pos) ==
    AndThen(many_digits(input, pos, <<>>), LAMBDA digits :
        and_then(parse_i16(negative, digits.val), digits.pos))

integer(input, pos) ==
    IF token("-", input, pos).ok
    THEN integer_signed(TRUE, input, pos + 1)
    ELSE integer_signed(FALSE, input, pos)

\* many(word_syms), word_syms = token('\\').with(any()).or(none_of("'"))
RECURSIVE many_word_syms(_, _, _)
many_word_syms(input, pos, acc) ==
    IF pos > Len(input) THEN Done(acc, pos)
    ELSE IF input[pos] = "\\"
    THEN IF pos + 1 > Len(input) THEN Fail
         ELSE many_word_syms(input, pos + 2, Append(acc, input[pos + 1]))
    ELSE IF input[pos] = "'" THEN Done(acc, pos)
    ELSE many_word_syms(input, pos + 1, Append(acc, input[pos]))

\* word without the escape rule: the text up to the next quote, as written
RECURSIVE until_quote(_, _, _)
until_quote(input, pos, acc) ==
    IF pos > Len(input) \/ input[pos] = "'" THEN Done(acc, pos)
    ELSE until_quote(input, pos + 1, Append(acc, input[pos]))

word_verbatim(input, pos) ==
    AndThen(token("'", input, pos), LAMBDA open :
        AndThen(until_quote(input, open.pos, <<>>), LAMBDA syms :
            AndThen(token("'", input, syms.pos), LAMBDA close :
                Done(syms.val, close.pos))))

\* word: token('\'').with(many(word_syms)).skip(token('\''))
word(input, pos) ==
    AndThen(token("'", input, pos), LAMBDA open :
        AndThen(many_word_syms(input, open.pos, <<>>), LAMBDA syms :
            AndThen(token("'", input, syms.pos), LAMBDA close :
                Done(syms.val, close.pos))))

\* pair: spaces word spaces '=' spaces integer spaces
pair(input, pos) ==
    AndThen(word(input, spaces(input, pos)), LAMBDA w :
        AndThen(token("=", input, spaces(input, w.pos)), LAMBDA eq :
            AndThen(integer(input, spaces(input, eq.pos)), LAMBDA i :
                Done(<<w.val, i.val>>, spaces(input, i.pos)))))

\* the repetition of sep_by1(pair, token(',')) after its first pair: it ends
\* where no ',' follows; a ',' that no pair follows fails the parse
RECURSIVE sep_by_rest(_, _, _)
sep_by_rest(input, pos, acc) ==
    IF ~token(",", input, pos).ok THEN Done(acc, pos)
    ELSE AndThen(pair(input, pos + 1), LAMBDA p :
             sep_by_rest(input, p.pos, Append(acc, p.val)))

\* enum_body: sep_by1(pair, token(','))
enum_body(input, pos) ==
    AndThen(pair(input, pos), LAMBDA first :
        sep_by_rest(input, first.pos, <<first.val>>))

\* the whole parser (lines 343-349), then `remain != ""` (lines 351-358)
enum_parser(size, input) ==
    AndThen(string(size, input, spaces(input, 1)), LAMBDA kw :
        AndThen(token("(", input, spaces(input, kw.pos)), LAMBDA open :
            AndThen(enum_body(input, spaces(input, open.pos)), LAMBDA body :
                AndThen(token(")", input, body.pos), LAMBDA close :
                    Done(body.val, close.pos)))))

\* parse_enum without its `remain != ""` check (lines 351-354)
ParsedAll_prefix(result, input) ==
    IF result.ok THEN Some(result.val) ELSE None

ParsedAll(result, input) ==
    IF result.ok /\ result.pos > Len(input) THEN Some(result.val) ELSE None

parse_enum(size, input) == ParsedAll(enum_parser(size, input), input)

\* `*val as i8`: the low 8 bits of the i16, read as a signed byte
as_i8(val) == ((val - I8Min) % (I8Max - I8Min + 1)) + I8Min

\* the `.map(|(key, val)| (key.clone(), *val as i8))` of parse_enum8
NarrowAll(result) ==
    IF result.tag = "Some"
    THEN Some([i \in 1..Len(result.val) |->
                  <<result.val[i][1], as_i8(result.val[i][2])>>])
    ELSE None

parse_enum8(input) == NarrowAll(parse_enum(KwEnum8, input))

parse_enum16(input) == parse_enum(KwEnum16, input)

(***************************************************************************)
(* The byte source.  A reader is the number of bulk reads it still serves; *)
(* `reads` counts the reads issued so far.  Every `load` of a column type  *)
(* (column/numeric.rs, nullable.rs, array.rs, ...: their code is outside   *)
(* factory.rs) is modelled from the wire layout: one bulk read for a       *)
(* column's own bytes, after which a composite column loads its inner      *)
(* column through load_data.                                               *)
(***************************************************************************)
Ok(col, reads) == [tag |-> "Ok", col |-> col, reads |-> reads]
ReadFailure(reads) == [tag |-> "Err", error |-> "read", reads |-> reads]
\* a separate error kind for descriptors with invalid parameters
Unsupported_malformed(type_name, reads) ==
    [tag |-> "Err", error |-> "Malformed type parameters", name |-> type_name,
     reads |-> reads]

Unsupported(type_name, reads) ==
    [tag |-> "Err", error |-> "Unsupported column type", name |-> type_name,
     reads |-> reads]
Panicked(reads) == [tag |-> "Panic", reads |-> reads]

\* VectorColumnData::load and the other columns without an inner column
Column_load(col, avail, reads) ==
    IF reads < avail THEN Ok(col, reads + 1) ELSE ReadFailure(reads + 1)

PrimitiveNames == <<
    <<"U", "I", "n", "t", "8">>,
    <<"U", "I", "n", "t", "1", "6">>,
    <<"U", "I", "n", "t", "3", "2">>,
    <<"U", "I", "n", "t", "6", "4">>,
    <<"I", "n", "t", "8">>,
    <<"I", "n", "t", "1", "6">>,
    <<"I", "n", "t", "3", "2">>,
    <<"I", "n", "t", "6", "4">>,
    <<"F", "l", "o", "a", "t", "3", "2">>,
    <<"F", "l", "o", "a", "t", "6", "4">>,
    <<"S", "t", "r", "i", "n", "g">>,
    <<"D", "a", "t", "e">>,
    <<"D", "a", "t", "e", "T", "i", "m", "e">>,
    <<"I", "P", "v", "4">>,
    <<"I", "P", "v", "6">>,
    <<"U", "U", "I", "D">> >>

PrimitiveKinds == <<"UInt8", "UInt16", "UInt32", "UInt64", "Int8", "Int16",
                    "Int32", "Int64", "Float32", "Float64", "String", "Date",
                    "DateTime", "Ipv4", "Ipv6", "Uuid">>

\* match_str!: the first arm whose literal equals type_name, case ignored
match_str(type_name) ==
    LET hits == {i \in 1..Len(PrimitiveNames) :
                    eq_ignore_ascii_case(type_name, PrimitiveNames[i])}
    IN  IF hits = {} THEN None
        ELSE Some(PrimitiveKinds[CHOOSE i \in hits : \A j \in hits : i <= j])

BackingInt(nobits) == IF nobits = "N32" THEN "Int32" ELSE "Int64"

\* `inner: <the inner column>?` of a composite column: the inner column
\* wrapped, or the inner failure passed on
Wrap(kind, inner) ==
    IF inner.tag = "Ok"
    THEN Ok([kind |-> kind, inner |-> inner.col], inner.reads)
    ELSE inner

RECURSIVE load_data(_, _, _)
RECURSIVE NullableColumnData_load(_, _, _)
RECURSIVE ArrayColumnData_load(_, _, _)

\* NullableColumnData::load: the null flags, then the inner column
NullableColumnData_load(inner_type, avail, reads) ==
    IF reads >= avail THEN ReadFailure(reads + 1)
    ELSE Wrap("Nullable", load_data(inner_type, avail, reads + 1))

\* ArrayColumnData::load: the offsets, then the inner column
ArrayColumnData_load(inner_type, avail, reads) ==
    IF reads >= avail THEN ReadFailure(reads + 1)
    ELSE Wrap("Array", load_data(inner_type, avail, reads + 1))

\* `if let Some(x) = parsed { then(x) } else { otherwise }`; a panic inside
\* the parser ends the call
IfLetSome(parsed, then(_), otherwise, reads) ==
    IF parsed.tag = "Panic" THEN Panicked(reads)
    ELSE IF parsed.tag = "Some" THEN then(parsed.val)
    ELSE otherwise

\* DecimalColumnData::load, Enum8ColumnData::load, Enum16ColumnData::load:
\* the backing integer column
DecimalColumn(d) ==
    [kind |-> "Decimal", inner |-> [kind |-> BackingInt(d.nobits)],
     precision |-> d.precision, scale |-> d.scale, nobits |-> d.nobits]
EnumColumn(kind, backing, items) ==
    [kind |-> kind, inner |-> [kind |-> backing], enum_values |-> items]

\* the fallback arm of load_data (lines 71-90)
load_composite(type_name, avail, reads) ==
    IfLetSome(parse_nullable_type(type_name),
        LAMBDA inner_type : NullableColumnData_load(inner_type, avail, reads),
    IfLetSome(parse_fixed_string(type_name),
        LAMBDA str_len :
            Column_load([kind |-> "FixedString", str_len |-> str_len], avail, reads),
    IfLetSome(parse_array_type(type_name),
        LAMBDA inner_type : ArrayColumnData_load(inner_type, avail, reads),
    IfLetSome(parse_decimal(type_name),
        LAMBDA d : Column_load(DecimalColumn(d), avail, reads),
    IfLetSome(parse_enum8(type_name),
        LAMBDA items : Column_load(EnumColumn("Enum8", "Int8", items), avail, reads),
    IfLetSome(parse_enum16(type_name),
        LAMBDA items : Column_load(EnumColumn("Enum16", "Int16", items), avail, reads),
    Unsupported(type_name, reads),
    reads), reads), reads), reads), reads), reads)

load_data(type_name, avail, reads) ==
    IfLetSome(match_str(type_name),
        LAMBDA kind : Column_load([kind |-> kind], avail, reads),
        load_composite(type_name, avail, reads), reads)

(***************************************************************************)
(* from_type                                                               *)
(***************************************************************************)
\* NoBits::from_precision(precision).unwrap() and the column around it
DecimalFromType(t, nobits) ==
    IF nobits.tag = "None" THEN Panicked(0)
    ELSE Ok(DecimalColumn([precision |-> t.precision, scale |-> t.scale,
                           nobits |-> nobits.val]), 0)

RECURSIVE from_type(_)
from_type(t) ==
    IF t.kind \in {"Nullable", "Array"} THEN Wrap(t.kind, from_type(t.inner))
    ELSE IF t.kind = "Decimal" THEN DecimalFromType(t, from_precision(t.precision))
    ELSE IF t.kind = "Enum8" THEN Ok(EnumColumn("Enum8", "Int8", t.enum_values), 0)
    ELSE IF t.kind = "Enum16" THEN Ok(EnumColumn("Enum16", "Int16", t.enum_values), 0)
    ELSE IF t.kind = "FixedString"
    THEN Ok([kind |-> "FixedString", str_len |-> t.len], 0)
    ELSE Ok([kind |-> t.kind], 0)

(***************************************************************************)
(* The descriptors checked.                                                *)
(***************************************************************************)
\* n.to_string() of a non-negative integer
RECURSIVE ToDigits(_)
ToDigits(n) ==
    IF n < 10 THEN <<DigitChars[n + 1]>>
    ELSE ToDigits(n \div 10) \o <<DigitChars[(n % 10) + 1]>>

ToText(v) == IF v < 0 THEN <<"-">> \o ToDigits(-v) ELSE ToDigits(v)

Blanks(n) == [i \in 1..n |-> " "]

RECURSIVE Join(_, _)
Join(texts, sep) ==
    IF texts = <<>> THEN <<>>
    ELSE IF Len(texts) = 1 THEN texts[1]
    ELSE texts[1] \o sep \o Join(Tail(texts), sep)

\* Wrapper descriptors: up to MaxNest of the keywords Nullable, Array and
\* FixedString with '(' between them, the last one with or without its '(',
\* then up to MaxTail tokens.
WrapperKeywords == {KwNullable, KwArray, KwFixedString}

WrapperHeads ==
    {<<>>} \cup
    {Join(kws, <<"(">>) \o paren :
        kws \in SeqsUpTo(WrapperKeywords, MaxNest) \ {<<>>},
        paren \in {<<>>, <<"(">>}}

WrapperTokens ==
    {<<"(">>, <<")">>, <<"8">>, <<"+">>, <<"I", "n", "t", "8">>,
     <<"i", "n", "t", "8">>, <<"C3", "A9">>}

WrapperDescriptors ==
    {head \o Concat(tail) :
        head \in WrapperHeads, tail \in SeqsUpTo(WrapperTokens, MaxTail)}

\* Decimal descriptors: a keyword, '(', up to two numeric cells and possibly
\* a third cell, ',' between them, ')', and possibly a trailing byte.  `pad`
\* is the number of blanks before and after each numeric cell.
DecimalNums == (0..MaxNum) \cup {U8Max, U8Max + 1}

DecimalCellSet ==
    {[sign |-> <<>>, n |-> n] : n \in DecimalNums}
    \cup {[sign |-> <<sg>>, n |-> 4] : sg \in {"-", "+"}}

DecimalShapes ==
    [family : {"decimal"},
     kw : {KwDecimal, KwDecimal32, KwDecimal64},
     cells : SeqsUpTo(DecimalCellSet, 2),
     extra : {<< >>, << <<"3">> >>, << <<>> >>},
     pad : {pd \in (0..MaxPad) \X (0..MaxPad) : pd[2] \in {0, pd[1]}},
     trail : {<<>>, <<"x">>, <<")">>, <<"(">>}]

DecimalCellText(sh, i) ==
    Blanks(sh.pad[1]) \o sh.cells[i].sign \o ToDigits(sh.cells[i].n)
    \o Blanks(sh.pad[2])

RenderDecimal(sh) ==
    sh.kw \o <<"(">>
    \o Join([i \in 1..Len(sh.cells) |-> DecimalCellText(sh, i)] \o sh.extra, <<",">>)
    \o <<")">> \o sh.trail

\* Enum descriptors: blanks, keyword, blanks, '(', pairs 'name' = value with
\* ',' between them, ')'; `defect` names what is wrong with the text, if
\* anything.
EnumNames == {<<>>, <<"a">>, <<"\\", "'">>, <<",", ")">>}

EnumValues ==
    {I16Min - 1, I16Min, I8Min - 1, I8Min, -1, 0, I8Max, I8Max + 1, I16Max,
     I16Max + 1}

EnumFirstPairs == [name : EnumNames, value : EnumValues]

EnumMorePairs ==
    {[name |-> <<>>, value |-> 2], [name |-> <<"a">>, value |-> 1],
     [name |-> <<"b">>, value |-> I16Max + 1]}

EnumDefects ==
    {"none", "trailing_comma", "leading_comma", "doubled_comma", "no_name",
     "no_value", "trailing_text"}

EnumShapes ==
    {[family |-> "enum", kw |-> kw, pairs |-> <<first>> \o more, ws |-> ws,
      defect |-> defect] :
        kw \in {KwEnum8, KwEnum16}, first \in EnumFirstPairs,
        more \in SeqsUpTo(EnumMorePairs, MaxPairs - 1), ws \in 0..MaxPad,
        defect \in EnumDefects}
    \cup {[family |-> "enum", kw |-> kw, pairs |-> <<>>, ws |-> ws,
           defect |-> "empty_body"] : kw \in {KwEnum8, KwEnum16}, ws \in 0..MaxPad}

PairText(p, ws, defect) ==
    Blanks(ws)
    \o (IF defect = "no_name" THEN <<>> ELSE <<"'">> \o p.name \o <<"'">>)
    \o Blanks(ws) \o <<"=">> \o Blanks(ws)
    \o (IF defect = "no_value" THEN <<>> ELSE ToText(p.value))
    \o Blanks(ws)

EnumBody(sh) ==
    LET n == Len(sh.pairs)
        texts == [i \in 1..n |->
                    PairText(sh.pairs[i], sh.ws,
                             IF (sh.defect = "no_name" /\ i = 1)
                                \/ (sh.defect = "no_value" /\ i = n)
                             THEN sh.defect ELSE "none")]
        body == Join(texts, <<",">>)
    IN  IF sh.defect = "trailing_comma" THEN body \o <<",">>
        ELSE IF sh.defect = "leading_comma" THEN Blanks(sh.ws) \o <<",">> \o body
        ELSE IF sh.defect = "doubled_comma" THEN body \o <<",", ",">> \o texts[1]
        ELSE body

RenderEnum(sh) ==
    Blanks(sh.ws) \o sh.kw \o Blanks(sh.ws) \o <<"(">> \o Blanks(sh.ws)
    \o EnumBody(sh) \o <<")">>
    \o (IF sh.defect = "trailing_text" THEN <<"x">> ELSE <<>>)

\* SqlType values: the variants, wrapped in up to MaxDepth Nullable / Array.
SqlScales == {0, 4, U8Max}

SqlLeaves ==
    {[kind |-> PrimitiveKinds[i]] : i \in 1..Len(PrimitiveKinds)}
    \cup {[kind |-> "FixedString", len |-> 8]}
    \cup {[kind |-> "Decimal", precision |-> p, scale |-> sc] :
             p \in 0..U8Max, sc \in SqlScales}
    \cup {[kind |-> k, enum_values |-> << <<(<<"a">>), 1>> >>] :
             k \in {"Enum8", "Enum16"}}

RECURSIVE SqlTypes(_)
SqlTypes(depth) ==
    IF depth = 0 THEN SqlLeaves
    ELSE LET below == SqlTypes(depth - 1)
         IN  below \cup {[kind |-> k, inner |-> t] :
                            k \in {"Nullable", "Array"}, t \in below}

NoShape == [family |-> "none"]
NoType == [kind |-> "UInt8"]

(***************************************************************************)
(* The calls.  Each behaviour is one call on one input.                    *)
(***************************************************************************)
Call(name, result) ==
    /\ op = "none"
    /\ op' = name
    /\ ret' = result
    /\ UNCHANGED <<descriptor, sql_type, shape>>

ParseFixedString == Call("parse_fixed_string", parse_fixed_string(descriptor))
ParseNullableType == Call("parse_nullable_type", parse_nullable_type(descriptor))
ParseArrayType == Call("parse_array_type", parse_array_type(descriptor))
ParseDecimal == Call("parse_decimal", parse_decimal(descriptor))
ParseEnum8 == Call("parse_enum8", parse_enum8(descriptor))
ParseEnum16 == Call("parse_enum16", parse_enum16(descriptor))
LoadData == \E avail \in 0..MaxReads : Call("load_data", load_data(descriptor, avail, 0))
FromType == Call("from_type", from_type(sql_type))

InitCall ==
    /\ op = "none"
    /\ ret = NotCalled

\* wrapper descriptors: the three slicing parsers and load_data
Init ==
    /\ descriptor \in WrapperDescriptors
    /\ shape = NoShape
    /\ sql_type = NoType
    /\ InitCall

Next ==
    \/ ParseFixedString
    \/ ParseNullableType
    \/ ParseArrayType
    \/ LoadData

Spec == Init /\ [][Next]_vars

\* Decimal descriptors: parse_decimal and load_data
InitDecimal ==
    /\ shape \in DecimalShapes
    /\ descriptor = RenderDecimal(shape)
    /\ sql_type = NoType
    /\ InitCall

NextDecimal == ParseDecimal \/ LoadData

SpecDecimal == InitDecimal /\ [][NextDecimal]_vars

\* enum descriptors: parse_enum8, parse_enum16 and load_data
InitEnum ==
    /\ shape \in EnumShapes
    /\ descriptor = RenderEnum(shape)
    /\ sql_type = NoType
    /\ InitCall

NextEnum == ParseEnum8 \/ ParseEnum16 \/ LoadData

SpecEnum == InitEnum /\ [][NextEnum]_vars

\* Decimal and enum descriptors through load_data and all three parsers
InitParams == InitDecimal \/ InitEnum

NextParams == ParseDecimal \/ ParseEnum8 \/ ParseEnum16 \/ LoadData

SpecParams == InitParams /\ [][NextParams]_vars

\* SqlType values: from_type
InitFromType ==
    /\ sql_type \in SqlTypes(MaxDepth)
    /\ descriptor = <<>>
    /\ shape = NoShape
    /\ InitCall

NextFromType == FromType

SpecFromType == InitFromType /\ [][NextFromType]_vars

(***************************************************************************)
(* Properties.                                                             *)
(***************************************************************************)
\* the error of a descriptor no rule accepts, raised before any read
UnsupportedUnread(r, d) ==
    /\ r.tag = "Err"
    /\ r.error = "Unsupported column type"
    /\ r.name = d
    /\ r.reads = 0

\* "kw(X)": the keyword, '(', an inner text, ')'
IsWrapped(s, kw) ==
    /\ Len(s) >= Len(kw) + 2
    /\ starts_with(s, kw \o <<"(">>)
    /\ s[Len(s)] = ")"

InnerText(s, kw) == SubSeq(s, Len(kw) + 2, Len(s) - 1)

IntDescriptor == <<"I", "n", "t", "8">>

\* a parameter written with a minus sign
HasNegative(sh) == \E i \in 1..Len(sh.cells) : sh.cells[i].sign = <<"-">>

\* every parameter written as plain digits
AllPlain(sh) == \A i \in 1..Len(sh.cells) : sh.cells[i].sign = <<>>

\* C1: parse_decimal follows the three-form reference: "Decimal(p, s)" with
\* 1 <= s <= p <= 18, blanks around the parameters or not, gives (p, s, the
\* width of p), 32 bits up to precision 9 and 64 bits from 10 to 18;
\* "Decimal32(s)" gives (9, s, 32 bits) and "Decimal64(s)" (18, s, 64 bits);
\* a "Decimal(...)" with precision above 18, with scale above precision, with
\* a negative parameter, with one parameter only or with more than two gives
\* nothing.
C1_ParseDecimalReference ==
    (op = "parse_decimal" /\ shape.family = "decimal") =>
        /\ (/\ shape.kw = KwDecimal
            /\ Len(shape.cells) = 2 /\ AllPlain(shape)
            /\ shape.extra = <<>> /\ shape.trail = <<>>
            /\ 1 <= shape.cells[2].n
            /\ shape.cells[2].n <= shape.cells[1].n
            /\ shape.cells[1].n <= 18)
           => ret = Some([precision |-> shape.cells[1].n,
                          scale |-> shape.cells[2].n,
                          nobits |-> IF shape.cells[1].n <= 9 THEN "N32"
                                     ELSE "N64"])
        /\ (/\ shape.kw \in {KwDecimal32, KwDecimal64}
            /\ Len(shape.cells) = 1 /\ AllPlain(shape)
            /\ shape.pad = <<0, 0>>
            /\ shape.extra = <<>> /\ shape.trail = <<>>
            /\ shape.cells[1].n <= U8Max)
           => ret = Some([precision |-> IF shape.kw = KwDecimal32 THEN 9 ELSE 18,
                          scale |-> shape.cells[1].n,
                          nobits |-> IF shape.kw = KwDecimal32 THEN "N32"
                                     ELSE "N64"])
        /\ (/\ shape.kw = KwDecimal
            /\ \/ Len(shape.cells) >= 1 /\ shape.cells[1].n > 18
               \/ Len(shape.cells) = 2 /\ shape.cells[2].n > shape.cells[1].n
               \/ HasNegative(shape)
               \/ Len(shape.cells) + Len(shape.extra) = 1
               \/ Len(shape.cells) + Len(shape.extra) > 2)
           => ret = None

\* "Decimal( 10 , 4 )" parsed to (10, 4, 64 bits)
C1_PaddedDecimalParsed ==
    /\ op = "parse_decimal"
    /\ shape.family = "decimal"
    /\ shape.kw = KwDecimal
    /\ Len(shape.cells) = 2 /\ AllPlain(shape)
    /\ shape.cells[1].n = 10 /\ shape.cells[2].n = 4
    /\ shape.pad = <<1, 1>>
    /\ shape.extra = <<>> /\ shape.trail = <<>>
    /\ ret = Some([precision |-> 10, scale |-> 4, nobits |-> "N64"])

\* C2: every result of parse_decimal has scale <= precision and
\* 1 <= precision <= 18.
C2_DecimalResultInvariant ==
    (op = "parse_decimal" /\ ret.tag = "Some") =>
        /\ ret.val.scale <= ret.val.precision
        /\ 1 <= ret.val.precision
        /\ ret.val.precision <= 18

\* no Nullable column directly around a Nullable column
RECURSIVE NoNullableInNullable(_)
NoNullableInNullable(col) ==
    IF "inner" \in DOMAIN col
    THEN /\ col.kind = "Nullable" => col.inner.kind # "Nullable"
         /\ NoNullableInNullable(col.inner)
    ELSE TRUE

\* C3: parse_nullable_type gives the inner text X of "Nullable(X)" when X
\* does not start with "Nullable", and nothing when the input does not start
\* with "Nullable" or its inner text does; load_data answers a Nullable
\* directly inside a Nullable with the unsupported-type error, before any
\* read, and no column it builds has a Nullable directly around a Nullable.
C3_NoDoubleNullable ==
    /\ op = "parse_nullable_type" =>
        /\ IsWrapped(descriptor, KwNullable) =>
              ret = IF starts_with(InnerText(descriptor, KwNullable), KwNullable)
                    THEN None
                    ELSE Some(InnerText(descriptor, KwNullable))
        /\ ~starts_with(descriptor, KwNullable) => ret = None
    /\ op = "load_data" =>
        /\ (/\ IsWrapped(descriptor, KwNullable)
            /\ starts_with(InnerText(descriptor, KwNullable), KwNullable))
           => UnsupportedUnread(ret, descriptor)
        /\ ret.tag = "Ok" => NoNullableInNullable(ret.col)

\* load_data("Nullable(Nullable(Int8))") answered with the error, unread
C3_DoubleNullableRejected ==
    /\ op = "load_data"
    /\ descriptor = KwNullable \o <<"(">> \o KwNullable \o <<"(">>
                    \o IntDescriptor \o <<")", ")">>
    /\ ret.tag = "Err"
    /\ ret.error = "Unsupported column type"
    /\ ret.reads = 0

\* the enum parser named by the descriptor's keyword was the one called
OwnEnumParser ==
    /\ shape.family = "enum"
    /\ \/ op = "parse_enum8" /\ shape.kw = KwEnum8
       \/ op = "parse_enum16" /\ shape.kw = KwEnum16

ValuesWithin(pairs, lo, hi) ==
    \A i \in 1..Len(pairs) : pairs[i].value >= lo /\ pairs[i].value <= hi

\* C4: an enum descriptor with an empty body, a trailing, leading or doubled
\* comma, a pair without name or without value, or characters after the
\* closing parenthesis gives no result from parse_enum8 and parse_enum16,
\* whatever pairs came before the defect.
C4_MalformedEnumRejected ==
    (/\ op \in {"parse_enum8", "parse_enum16"}
     /\ shape.family = "enum"
     /\ shape.defect # "none")
    => ret = None

\* "Enum16('..' = v, '..' = w,)" with both values in range, rejected
C4_TrailingCommaRejected ==
    /\ OwnEnumParser
    /\ op = "parse_enum16"
    /\ shape.defect = "trailing_comma"
    /\ Len(shape.pairs) = 2
    /\ ValuesWithin(shape.pairs, I16Min, I16Max)
    /\ ret = None

\* a name as written between the quotes, with the escapes resolved
RECURSIVE Unescape(_)
Unescape(name) ==
    IF name = <<>> THEN <<>>
    ELSE IF name[1] = "\\" /\ Len(name) >= 2
    THEN <<name[2]>> \o Unescape(SubSeq(name, 3, Len(name)))
    ELSE <<name[1]>> \o Unescape(Tail(name))

\* C5: a well-formed enum descriptor gives one (name, code) per pair, in the
\* order written, the names unescaped, empty and repeated names kept, and
\* each code the value written whenever it fits the width.
C5_WellFormedEnumParsed ==
    (/\ OwnEnumParser
     /\ shape.defect = "none"
     /\ ValuesWithin(shape.pairs, I16Min, I16Max))
    => /\ ret.tag = "Some"
       /\ Len(ret.val) = Len(shape.pairs)
       /\ \A i \in 1..Len(shape.pairs) :
            /\ ret.val[i][1] = Unescape(shape.pairs[i].name)
            /\ (op = "parse_enum16" \/ ValuesWithin(<<shape.pairs[i]>>, I8Min, I8Max))
               => ret.val[i][2] = shape.pairs[i].value

\* three pairs, an escaped quote first and then the empty name twice
C5_EscapedAndRepeatedNames ==
    /\ OwnEnumParser
    /\ shape.defect = "none"
    /\ shape.ws = 1
    /\ Len(shape.pairs) = 3
    /\ shape.pairs[1].name = <<"\\", "'">>
    /\ shape.pairs[2].name = <<>>
    /\ shape.pairs[3].name = <<>>
    /\ ret.tag = "Some"
    /\ Len(ret.val) = 3
    /\ ret.val[1][1] = <<"'">>

\* C6: an enum value outside the signed range of the width makes the parse
\* fail: parse_enum16 outside -32768..32767, parse_enum8 outside -128..127;
\* no value is wrapped or truncated.
C6_EnumValueRange ==
    (OwnEnumParser /\ shape.defect = "none") =>
        /\ (op = "parse_enum16" /\ ~ValuesWithin(shape.pairs, I16Min, I16Max))
           => ret = None
        /\ (op = "parse_enum8" /\ ~ValuesWithin(shape.pairs, I8Min, I8Max))
           => ret = None
        /\ ret.tag = "Some" =>
              \A i \in 1..Len(ret.val) : ret.val[i][2] = shape.pairs[i].value

\* a descriptor some rule of load_data accepts the form of
Classified(d) ==
    \/ match_str(d).tag = "Some"
    \/ IsWrapped(d, KwNullable)
    \/ IsWrapped(d, KwArray)
    \/ IsWrapped(d, KwFixedString)
    \/ parse_decimal(d).tag = "Some"
    \/ parse_enum8(d).tag = "Some"
    \/ parse_enum16(d).tag = "Some"

\* C7: load_data answers every descriptor it cannot classify, the bare
\* keywords "Nullable", "Array" and "FixedString" among them, with the
\* "Unsupported column type" error, without reading and without aborting.
C7_UnclassifiableUnsupported ==
    (op = "load_data" /\ ~Classified(descriptor))
    => UnsupportedUnread(ret, descriptor)

\* C8: from_type returns a column for every SqlType, any 8-bit precision and
\* scale of a Decimal included; it never fails, never aborts and reads
\* nothing.
C8_FromTypeTotal ==
    op = "from_type" => (ret.tag = "Ok" /\ ret.reads = 0)

\* a Decimal or enum descriptor whose parameters its parser rejects
InvalidParameters(sh) ==
    \/ /\ sh.family = "decimal"
       /\ sh.kw = KwDecimal
       /\ Len(sh.cells) = 2 /\ sh.extra = <<>>
       /\ \/ sh.cells[2].n > sh.cells[1].n
          \/ sh.cells[1].n > 18
    \/ /\ sh.family = "enum"
       /\ \/ sh.defect \in {"trailing_comma", "empty_body", "trailing_text"}
          \/ sh.defect = "none" /\ ~ValuesWithin(sh.pairs, I16Min, I16Max)

AllDigits(s) == s # <<>> /\ \A i \in 1..Len(s) : IsDigit(s[i])

\* C10: parse_nullable_type and parse_array_type give an inner text only for
\* a descriptor that is the keyword, '(', the inner text and ')', and
\* parse_fixed_string gives n only for "FixedString(" decimal digits ")".
C10_WrapperSurfaceForm ==
    /\ (op = "parse_nullable_type" /\ ret.tag = "Some")
       => /\ IsWrapped(descriptor, KwNullable)
          /\ ret.val = InnerText(descriptor, KwNullable)
    /\ (op = "parse_array_type" /\ ret.tag = "Some")
       => /\ IsWrapped(descriptor, KwArray)
          /\ ret.val = InnerText(descriptor, KwArray)
    /\ (op = "parse_fixed_string" /\ ret.tag = "Some")
       => /\ IsWrapped(descriptor, KwFixedString)
          /\ AllDigits(InnerText(descriptor, KwFixedString))

====
